---- MODULE Spec2Model ----
(***************************************************************************)
(* The telnet line-command server of ESP32S3_EasyConnect                   *)
(* (src/src/ESP32-S3_EasyConnect.cpp): the slot table telnetClients[],     *)
(* admission and rejection of pending connections, line reading and        *)
(* command dispatch, idle and peer-disconnect eviction, the mass           *)
(* disconnect, and the example command hook of src/src/Main.cpp.           *)
(*                                                                         *)
(* Sockets are numbered 1..MaxConn in order of arrival; 0 is the           *)
(* default-constructed WiFiClient that owns no socket.  A byte stream is   *)
(* a sequence of one-character strings.  Text written with print() is      *)
(* recorded piece by piece (the pieces the code concatenates), long fixed  *)
(* texts are abbreviated to their first line, emoji are left out.          *)
(***************************************************************************)
EXTENDS Integers, Sequences, FiniteSets, TLC

VARIABLES
  telnetClients,          \* [Slots -> [connected, client, lastActivity]]
  live,                   \* live[c]: socket c is connected (client.connected())
  rx,                     \* rx[c]: bytes received on socket c and not yet read
  pending,                \* sockets waiting in telnetServer (hasClient/available)
  nextConn,               \* number of the next socket to arrive
  now,                    \* millis(), an unsigned 32-bit value
  ticks,                  \* number of clock advances so far
  enableTelnet,           \* config.enableTelnet
  telnetCommandCallback,  \* TRUE iff a command hook is registered
  halted,                 \* ESP.restart() was invoked: the process has ended
  cleared,                \* WiFi credentials and config file were cleared
  removeOk,               \* LittleFS.remove(configFile) will succeed
  broken,                 \* sockets on which print() fails: the peer takes no data
  wrote,                  \* wrote[c]: pieces print()ed on socket c by the last operation
  call,                   \* record of the last handleTelnet() call, or NoCall
  ret,                    \* result of the last getTelnetClientCount() call, or -1
  isConnected,            \* the isConnected flag of the framework
  linkUp,                 \* WiFi.status() == WL_CONNECTED
  lastReconnectAttempt,   \* millis() at the last WiFi.reconnect(), 32 bits
  onConnectedCallback,    \* TRUE iff a callback is registered with onConnected()
  onDisconnectedCallback, \* TRUE iff one is registered with onDisconnected()
  onConfigChangedCallback, \* TRUE iff one is registered with onConfigChanged()
  lastSite,               \* the connectivity callback site reached last
  reconnectedAt,          \* time of the last WiFi.reconnect(), or -1 before the first
  idleFor                 \* idleFor[i]: the time that has really passed since slot i
                          \* last saw an admission or a line, <<high part, low 16 bits>>

vars == <<telnetClients, live, rx, pending, nextConn, now, ticks,
          enableTelnet, telnetCommandCallback, halted, cleared, removeOk, broken,
          wrote, call, ret, isConnected, linkUp, lastReconnectAttempt,
          onConnectedCallback, onDisconnectedCallback, onConfigChangedCallback,
          lastSite, reconnectedAt, idleFor>>

\* the state of the WiFi supervision in loop() and of the callbacks around it
wifiVars == <<isConnected, linkUp, lastReconnectAttempt, onConnectedCallback,
              onDisconnectedCallback, onConfigChangedCallback, lastSite,
              reconnectedAt>>

(***************************************************************************)
(* Program constants and model bounds                                      *)
(***************************************************************************)
MAX_TELNET_CLIENTS == 3
TimeoutMs == 600000

MaxConn == 4        \* sockets that arrive in one behaviour of Spec
MaxTicks == 1       \* clock advances in one behaviour of Spec
IdleConn == 1       \* sockets that arrive in one behaviour of SpecIdle
IdleTicks == 2      \* clock advances in one behaviour of SpecIdle
LineConn == 1       \* sockets that arrive in one behaviour of SpecLine
MaxBacklog == 2     \* unread bytes of a begun line to which a peer still adds
MaxBusy == 1        \* sockets with unread bytes at the same time
ResetConn == 2      \* sockets that arrive in one behaviour of SpecReset
CauseTicks == 1     \* clock advances in one behaviour of SpecCause
WriteConn == 2      \* sockets that arrive in one behaviour of SpecWrite
PairConn == 2       \* sockets that arrive in one behaviour of SpecPair
PairTicks == 1      \* clock advances in one behaviour of SpecPair
LiveConn == 2       \* sockets that arrive in one behaviour of SpecLive
LiveTicks == 2      \* clock advances in one behaviour of SpecLive
WrapConn == 1       \* sockets that arrive in one behaviour of SpecWrap
WrapTicks == 4      \* clock advances in one behaviour of SpecWrap
WifiConn == 1       \* sockets that arrive in one behaviour of SpecWifi
WifiTicks == 3      \* clock advances in one behaviour of SpecWifi

Slots == 0 .. (MAX_TELNET_CLIENTS - 1)
Conns == 1 .. MaxConn

(***************************************************************************)
(* unsigned long: 32 bits, kept as <<high half, low half>> of 16 bits each *)
(***************************************************************************)
Half == 2 ^ 16

U32(n) == <<n \div Half, n % Half>>

Add32(a, b) ==
  LET lo == a[2] + b[2]
      hi == a[1] + b[1] + (lo \div Half)
  IN  <<hi % Half, lo % Half>>

Sub32(a, b) ==
  LET lo == a[2] - b[2]
      hi == a[1] - b[1] - (IF lo < 0 THEN 1 ELSE 0)
  IN  <<(hi + Half) % Half, (lo + Half) % Half>>

\* the number a 32-bit value stands for (fits while below 2^31)
Val(x) == x[1] * Half + x[2]

Gt32(a, b) == a[1] > b[1] \/ (a[1] = b[1] /\ a[2] > b[2])

(***************************************************************************)
(* Stream::readStringUntil and String::trim                                *)
(***************************************************************************)
LF == "\n"

IsSpace(ch) == ch \in {" ", "\t", "\n", "\r"}

RECURSIVE IndexOf(_, _, _)
\* position of the first ch in buf at or after k, or 0
IndexOf(buf, ch, k) ==
  IF k > Len(buf) THEN 0
  ELSE IF buf[k] = ch THEN k
  ELSE IndexOf(buf, ch, k + 1)

\* reads up to (and consumes) the terminator; with no terminator in the
\* buffer the read times out and returns every byte there is
ReadStringUntil(buf) ==
  LET k == IndexOf(buf, LF, 1)
  IN  IF k = 0 THEN [str |-> buf, rest |-> <<>>]
      ELSE [str |-> SubSeq(buf, 1, k - 1), rest |-> SubSeq(buf, k + 1, Len(buf))]

RECURSIVE TrimLeft(_)
TrimLeft(str) ==
  IF str # <<>> /\ IsSpace(Head(str)) THEN TrimLeft(Tail(str)) ELSE str

RECURSIVE TrimRight(_)
TrimRight(str) ==
  IF str # <<>> /\ IsSpace(str[Len(str)]) THEN TrimRight(SubSeq(str, 1, Len(str) - 1))
  ELSE str

Trim(str) == TrimRight(TrimLeft(str))

RECURSIVE Join(_)
\* the String holding the characters of str
Join(str) == IF str = <<>> THEN "" ELSE Head(str) \o Join(Tail(str))

StartsWith(str, prefix) ==
  Len(str) >= Len(prefix) /\ SubSeq(str, 1, Len(prefix)) = prefix

(***************************************************************************)
(* The state a handler works on, as one record, and the socket operations  *)
(***************************************************************************)
NoEvents == <<>>

Event(kind, slot, conn, text) ==
  [kind |-> kind, slot |-> slot, conn |-> conn, text |-> text, out |-> <<>>,
   n |-> 0]

Connected(s, c) == c # 0 /\ s.live[c]

\* client.print(piece): the piece goes out on socket c, or the write fails;
\* no caller looks at the result
ClientPrint(s, c, piece) ==
  IF c \in s.broken
  THEN [s EXCEPT !.ev = Append(@, Event("writefail", -1, c, piece))]
  ELSE [s EXCEPT !.wrote[c] = Append(@, piece)]

RECURSIVE ClientPrintAll(_, _, _)
ClientPrintAll(s, c, pieces) ==
  IF pieces = <<>> THEN s
  ELSE ClientPrintAll(ClientPrint(s, c, Head(pieces)), c, Tail(pieces))

RemoteIP(c) == "10.0.0." \o ToString(c)

Note(s, kind, slot, conn, text) ==
  [s EXCEPT !.ev = Append(@, Event(kind, slot, conn, text))]

NoteN(s, kind, slot, conn, text, n) ==
  [s EXCEPT !.ev = Append(@, [Event(kind, slot, conn, text) EXCEPT !.n = n])]

RECURSIVE WritesFrom(_, _)
\* number of pieces printed so far on the sockets c, c + 1, ...
WritesFrom(s, c) ==
  IF c > Len(s.wrote) THEN 0 ELSE Len(s.wrote[c]) + WritesFrom(s, c + 1)

\* mutant: the socket is closed but its unread bytes can still be read
Stop_keepsBuffer(s, c) ==
  Note([s EXCEPT !.live[c] = FALSE], "stop", -1, c, "")

\* client.stop(): the socket is closed and its unread bytes are dropped
Stop(s, c) ==
  Note([s EXCEPT !.live[c] = FALSE, !.rx[c] = <<>>], "stop", -1, c, "")

RECURSIVE BroadcastFrom_flagsOnly(_, _, _)
\* mutant: prints to every slot marked connected, without asking the socket
BroadcastFrom_flagsOnly(s, message, i) ==
  IF i >= MAX_TELNET_CLIENTS THEN s
  ELSE LET t == s.tc[i]
           s1 == IF t.connected
                 THEN Note(ClientPrint(s, t.client, message),
                           "write", i, t.client, message)
                 ELSE s
       IN  BroadcastFrom_flagsOnly(s1, message, i + 1)

RECURSIVE BroadcastFrom(_, _, _)
\* the loop of broadcastTelnet from slot i on
BroadcastFrom(s, message, i) ==
  IF i >= MAX_TELNET_CLIENTS THEN s
  ELSE LET t == s.tc[i]
           s1 == IF t.connected /\ Connected(s, t.client)
                 THEN Note(ClientPrint(s, t.client, message),
                           "write", i, t.client, message)
                 ELSE s
       IN  BroadcastFrom(s1, message, i + 1)

BroadcastTelnet(s, message) ==
  IF ~s.en THEN s ELSE BroadcastFrom(s, message, 0)

SendToTelnet(s, message) ==
  IF ~s.en THEN s ELSE BroadcastTelnet(s, message)

Log(s, message) == SendToTelnet(s, message)

\* mutant: the message goes to the serial port only
Logln_serialOnly(s, message) == s

Logln(s, message) == SendToTelnet(s, message \o "\r\n")

RECURSIVE CountFrom_flagsOnly(_, _, _)
\* mutant: counts the connected flags without asking the sockets
CountFrom_flagsOnly(s, i, count) ==
  IF i >= MAX_TELNET_CLIENTS THEN count
  ELSE CountFrom_flagsOnly(s, i + 1, IF s.tc[i].connected THEN count + 1 ELSE count)

RECURSIVE CountFrom(_, _, _)
CountFrom(s, i, count) ==
  IF i >= MAX_TELNET_CLIENTS THEN count
  ELSE CountFrom(s, i + 1,
                 IF s.tc[i].connected /\ Connected(s, s.tc[i].client)
                 THEN count + 1 ELSE count)

GetTelnetClientCount(s) == CountFrom(s, 0, 0)

RECURSIVE DisconnectFrom_always(_, _)
\* mutant: says goodbye to and closes every slot, occupied or not
DisconnectFrom_always(s, i) ==
  IF i >= MAX_TELNET_CLIENTS THEN s
  ELSE LET t == s.tc[i]
           a == ClientPrint(s, t.client,
                            "Server shutting down for maintenance. Goodbye!\r\n")
           b == Stop(a, t.client)
           c == [b EXCEPT !.tc[i].connected = FALSE]
       IN  DisconnectFrom_always(Note(c, "shutdown", i, t.client, ""), i + 1)

RECURSIVE DisconnectFrom(_, _)
DisconnectFrom(s, i) ==
  IF i >= MAX_TELNET_CLIENTS THEN s
  ELSE LET t == s.tc[i]
           s1 == IF t.connected
                 THEN LET a == ClientPrint(s, t.client,
                                     "Server shutting down for maintenance. Goodbye!\r\n")
                          b == Stop(a, t.client)
                          c == [b EXCEPT !.tc[i].connected = FALSE]
                      IN  Note(c, "shutdown", i, t.client, "")
                 ELSE s
       IN  DisconnectFrom(s1, i + 1)

DisconnectTelnetClients(s) == DisconnectFrom(s, 0)

RestartDevice(s) ==
  LET a == Logln(s, "Restarting device...")
      b == Note(a, "restart", -1, 0, "")
  IN  [b EXCEPT !.halted = TRUE]

\* mutant: a failed removal of the config file ends the reset
FactoryReset_stopsOnFailure(s) ==
  LET a == Logln(s, "Performing factory reset...")
      b == NoteN([a EXCEPT !.cleared = s.removeOk], "clear", -1, 0, "",
                 IF s.removeOk THEN 1 ELSE 0)
      c == DisconnectTelnetClients(b)
      d == Note(c, "restart", -1, 0, "")
  IN  IF s.removeOk THEN [d EXCEPT !.halted = TRUE] ELSE b

\* resetSettings() and LittleFS.remove(configFile), whose result is not
\* looked at, then the mass disconnect, then ESP.restart()
FactoryReset(s) ==
  LET a == Logln(s, "Performing factory reset...")
      b == NoteN([a EXCEPT !.cleared = s.removeOk], "clear", -1, 0, "",
                 IF s.removeOk THEN 1 ELSE 0)
      c == DisconnectTelnetClients(b)
      d == Note(c, "restart", -1, 0, "")
  IN  [d EXCEPT !.halted = TRUE]

(***************************************************************************)
(* handleTelnet, first part: at most one pending connection is taken       *)
(***************************************************************************)
RECURSIVE FirstFree_deadSocket(_, _)
\* mutant: also takes a slot whose flag is set but whose socket is gone
FirstFree_deadSocket(s, i) ==
  IF i >= MAX_TELNET_CLIENTS THEN MAX_TELNET_CLIENTS
  ELSE IF ~s.tc[i].connected \/ ~Connected(s, s.tc[i].client) THEN i
  ELSE FirstFree_deadSocket(s, i + 1)

RECURSIVE FirstFree(_, _)
\* the scan for (int i = 0; ...) for a slot with connected == false;
\* MAX_TELNET_CLIENTS when the scan ends without one
FirstFree(s, i) ==
  IF i >= MAX_TELNET_CLIENTS THEN MAX_TELNET_CLIENTS
  ELSE IF ~s.tc[i].connected THEN i
  ELSE FirstFree(s, i + 1)

Welcome(s) ==
  << "\r\nESP32-S3 EasyConnect Telnet\r\n",
     "Connected clients: " \o ToString(GetTelnetClientCount(s)) \o "/"
        \o ToString(MAX_TELNET_CLIENTS) \o "\r\n",
     "Type 'help' for available commands\r\n",
     "> " >>

\* mutant: the slot keeps the lastActivity of its previous client
Accept_keepsActivity(s, i) ==
  LET old == s.tc[i].client
      a == IF Connected(s, old) THEN Stop(s, old) ELSE s
      c == Head(a.pending)
      b == [a EXCEPT !.pending = Tail(@),
                     !.tc[i].connected = TRUE,
                     !.tc[i].client = c]
      d == ClientPrintAll(b, c, Welcome(b))
      e == Logln(Log(d, "Telnet client connected from: "), RemoteIP(c))
  IN  Note(e, "accept", i, c, "")

\* mutant: the slot's lastActivity is set to 0, as in the constructor
Accept_zeroActivity(s, i) ==
  LET old == s.tc[i].client
      a == IF Connected(s, old) THEN Stop(s, old) ELSE s
      c == Head(a.pending)
      b == [a EXCEPT !.pending = Tail(@),
                     !.tc[i] = [connected |-> TRUE, client |-> c,
                                lastActivity |-> U32(0)]]
      d == ClientPrintAll(b, c, Welcome(b))
      e == Logln(Log(d, "Telnet client connected from: "), RemoteIP(c))
  IN  Note(e, "accept", i, c, "")

Accept(s, i) ==
  LET old == s.tc[i].client
      a == IF Connected(s, old) THEN Stop(s, old) ELSE s
      c == Head(a.pending)
      b == [a EXCEPT !.pending = Tail(@),
                     !.tc[i] = [connected |-> TRUE, client |-> c,
                                lastActivity |-> a.now]]
      d == ClientPrintAll(b, c, Welcome(b))
      e == Logln(Log(d, "Telnet client connected from: "), RemoteIP(c))
  IN  Note(e, "accept", i, c, "")

RejectMessage ==
  "Maximum telnet clients reached (" \o ToString(MAX_TELNET_CLIENTS)
     \o "). Try again later.\r\n"

\* mutant: a rejection also restarts the device
Reject_restarts(s) ==
  LET c == Head(s.pending)
      a == [s EXCEPT !.pending = Tail(@)]
      b == Stop(ClientPrint(a, c, RejectMessage), c)
      d == Logln(b, "Telnet connection rejected - maximum clients reached")
  IN  RestartDevice(Note(d, "reject", -1, c, ""))

Reject(s) ==
  LET c == Head(s.pending)
      a == [s EXCEPT !.pending = Tail(@)]
      b == Stop(ClientPrint(a, c, RejectMessage), c)
      d == Logln(b, "Telnet connection rejected - maximum clients reached")
  IN  Note(d, "reject", -1, c, "")

\* mutant: with no slot free the new connection takes slot 0
Admission_replaceWhenFull(s) ==
  IF s.pending = <<>> THEN s
  ELSE LET i == FirstFree(s, 0)
       IN  IF i < MAX_TELNET_CLIENTS THEN Accept(s, i) ELSE Accept(s, 0)

RECURSIVE Admission_all(_)
\* mutant: while (hasClient()) in place of if (hasClient())
Admission_all(s) ==
  IF s.pending = <<>> THEN s
  ELSE LET i == FirstFree(s, 0)
       IN  Admission_all(IF i < MAX_TELNET_CLIENTS THEN Accept(s, i) ELSE Reject(s))

Admission(s) ==
  IF s.pending = <<>> THEN s
  ELSE LET i == FirstFree(s, 0)
       IN  IF i < MAX_TELNET_CLIENTS THEN Accept(s, i) ELSE Reject(s)

(***************************************************************************)
(* The command hook registered by the example application                  *)
(* (handleTelnetCommand of Main.cpp)                                       *)
(***************************************************************************)
Chars_set_temp == <<"s", "e", "t", " ", "t", "e", "m", "p", " ">>
Chars_set_hum == <<"s", "e", "t", " ", "h", "u", "m", " ">>

HandleTelnetCommand(s, c, str) ==
  LET command == Join(str)
  IN  IF command = "sensors"
      THEN ClientPrintAll(s, c, <<"Current Sensor Readings:\r\n", "> ">>)
      ELSE IF command = "led on"
      THEN BroadcastTelnet(ClientPrintAll(s, c, <<"LED turned ON\r\n", "> ">>),
                           "LED state changed to ON\r\n")
      ELSE IF command = "led off"
      THEN BroadcastTelnet(ClientPrintAll(s, c, <<"LED turned OFF\r\n", "> ">>),
                           "LED state changed to OFF\r\n")
      ELSE IF command = "toggle"
      THEN BroadcastTelnet(ClientPrintAll(s, c, <<"LED toggled\r\n", "> ">>),
                           "LED toggled\r\n")
      ELSE IF command = "reboot"
      THEN [Note(ClientPrint(s, c, "Rebooting device...\r\n"), "reboot", -1, c, "")
              EXCEPT !.halted = TRUE]
      ELSE IF StartsWith(str, Chars_set_temp)
      THEN ClientPrintAll(s, c, <<"Temperature set\r\n", "> ">>)
      ELSE IF StartsWith(str, Chars_set_hum)
      THEN ClientPrintAll(s, c, <<"Humidity set\r\n", "> ">>)
      ELSE ClientPrintAll(s, c, <<"Unknown custom command: '" \o command \o "'\r\n",
                                  "Available custom commands: sensors, ...\r\n",
                                  "> ">>)

(***************************************************************************)
(* handleTelnet, second part: the lines of each slot, then its idle check  *)
(***************************************************************************)
RECURSIVE ClientsList(_, _)
ClientsList(s, j) ==
  IF j >= MAX_TELNET_CLIENTS THEN <<>>
  ELSE (IF s.tc[j].connected /\ Connected(s, s.tc[j].client)
        THEN <<"  " \o ToString(j + 1) \o ". " \o RemoteIP(s.tc[j].client)
                 \o " (active)\r\n">>
        ELSE <<>>) \o ClientsList(s, j + 1)

UnknownMessage == "Unknown command. Type 'help' for available commands.\r\n"

\* mutant: the escape sequence without the prompt
ClearScreen_noPrompt(s, c) == ClientPrint(s, c, "ESC[2J ESC[H")

\* "clear" and "cls": the escape sequence, then the prompt
ClearScreen(s, c) == ClientPrint(ClientPrint(s, c, "ESC[2J ESC[H"), c, "> ")

\* mutant: the socket is closed but the slot stays marked connected
DisconnectCommand_keepsFlag(s, i) ==
  LET c == s.tc[i].client
      a == Stop(ClientPrint(s, c, "Disconnecting...\r\n"), c)
  IN  Note(a, "disconnect", i, c, "")

\* mutant: the slot is marked free but its socket is left open
DisconnectCommand_noStop(s, i) ==
  LET c == s.tc[i].client
      a == ClientPrint(s, c, "Disconnecting...\r\n")
  IN  Note([a EXCEPT !.tc[i].connected = FALSE], "disconnect", i, c, "")

\* "disconnect": the notice, stop(), connected = false
DisconnectCommand(s, i) ==
  LET c == s.tc[i].client
      a == Stop(ClientPrint(s, c, "Disconnecting...\r\n"), c)
  IN  Note([a EXCEPT !.tc[i].connected = FALSE], "disconnect", i, c, "")

\* mutant: the null check of the callback is inverted
CustomOrUnknown_inverted(s, i, str) ==
  LET c == s.tc[i].client
  IN  IF ~s.hook
      THEN HandleTelnetCommand(Note(s, "hook", i, c, Join(str)), c, str)
      ELSE ClientPrintAll(s, c, <<UnknownMessage, "> ">>)

\* the final else: the registered callback gets the trimmed command and the
\* slot's client; without a callback the fixed message is printed
CustomOrUnknown(s, i, str) ==
  LET c == s.tc[i].client
  IN  IF s.hook
      THEN HandleTelnetCommand(Note(s, "hook", i, c, Join(str)), c, str)
      ELSE ClientPrintAll(s, c, <<UnknownMessage, "> ">>)

\* the if / else-if chain on the trimmed command of slot i
Dispatch(s, i, str) ==
  LET command == Join(str)
      c == s.tc[i].client
  IN  IF command = "help" \/ command = "?"
      THEN ClientPrintAll(s, c, <<"Available commands:\r\n", "> ">>)
      ELSE IF command = "status"
      THEN ClientPrintAll(s, c,
             <<"Device Status:\r\n",
               "  Telnet clients: " \o ToString(GetTelnetClientCount(s)) \o "/"
                  \o ToString(MAX_TELNET_CLIENTS) \o "\r\n",
               "> ">>)
      ELSE IF command = "restart"
      THEN RestartDevice(ClientPrint(s, c, "Restarting device...\r\n"))
      ELSE IF command = "factoryreset"
      THEN FactoryReset(ClientPrint(s, c, "Factory reset...\r\n"))
      ELSE IF command = "clients"
      THEN ClientPrintAll(s, c,
             <<"Connected Telnet Clients:\r\n">> \o ClientsList(s, 0) \o <<"> ">>)
      ELSE IF command = "wifi"
      THEN ClientPrintAll(s, c, <<"WiFi Information:\r\n", "> ">>)
      ELSE IF command = "memory"
      THEN ClientPrintAll(s, c, <<"Memory Information:\r\n", "> ">>)
      ELSE IF command = "config"
      THEN ClientPrintAll(s, c, <<"Current Configuration:\r\n", "> ">>)
      ELSE IF command = "clear" \/ command = "cls"
      THEN ClearScreen(s, c)
      ELSE IF command = "disconnect"
      THEN DisconnectCommand(s, i)
      ELSE CustomOrUnknown(s, i, str)

\* mutant: an empty line is answered with a fresh prompt
ReadLine_promptOnBlank(s, i) ==
  LET c == s.tc[i].client
      r == ReadStringUntil(s.rx[c])
      w == IF IndexOf(s.rx[c], LF, 1) = 0 THEN Note(s, "wait", i, c, "") ELSE s
      a == NoteN([w EXCEPT !.rx[c] = r.rest], "read", i, c, Join(r.str), Len(r.str))
      str == Trim(r.str)
      e == IF Len(str) > 0
           THEN LET b == [a EXCEPT !.tc[i].lastActivity = a.now]
                    d == Logln(Log(Log(Log(b, "Telnet command from "), RemoteIP(c)),
                                   ": "),
                               Join(str))
                    f == Dispatch(Note(d, "line", i, c, Join(str)), i, str)
                    out == SubSeq(f.wrote[c], Len(d.wrote[c]) + 1, Len(f.wrote[c]))
                IN  [f EXCEPT !.ev = Append(@, [Event("reply", i, c, Join(str))
                                                  EXCEPT !.out = out])]
           ELSE ClientPrint(a, c, "> ")
  IN  NoteN(e, "pass", i, c, "", WritesFrom(e, 1) - WritesFrom(s, 1))

\* mutant: a command does not count as activity
ReadLine_keepsActivity(s, i) ==
  LET c == s.tc[i].client
      r == ReadStringUntil(s.rx[c])
      w == IF IndexOf(s.rx[c], LF, 1) = 0 THEN Note(s, "wait", i, c, "") ELSE s
      a == NoteN([w EXCEPT !.rx[c] = r.rest], "read", i, c, Join(r.str), Len(r.str))
      str == Trim(r.str)
      e == IF Len(str) > 0
           THEN LET b == a
                    d == Logln(Log(Log(Log(b, "Telnet command from "), RemoteIP(c)),
                                   ": "),
                               Join(str))
                    f == Dispatch(Note(d, "line", i, c, Join(str)), i, str)
                    out == SubSeq(f.wrote[c], Len(d.wrote[c]) + 1, Len(f.wrote[c]))
                IN  [f EXCEPT !.ev = Append(@, [Event("reply", i, c, Join(str))
                                                  EXCEPT !.out = out])]
           ELSE a
  IN  NoteN(e, "pass", i, c, "", WritesFrom(e, 1) - WritesFrom(s, 1))

\* one pass of the while (client.available()) body for slot i: the read
\* (which waits out the stream timeout when no terminator is there), the
\* trim, and for a non-empty command the dispatch
ReadLine(s, i) ==
  LET c == s.tc[i].client
      r == ReadStringUntil(s.rx[c])
      w == IF IndexOf(s.rx[c], LF, 1) = 0 THEN Note(s, "wait", i, c, "") ELSE s
      a == NoteN([w EXCEPT !.rx[c] = r.rest], "read", i, c, Join(r.str), Len(r.str))
      str == Trim(r.str)
      e == IF Len(str) > 0
           THEN LET b == [a EXCEPT !.tc[i].lastActivity = a.now]
                    d == Logln(Log(Log(Log(b, "Telnet command from "), RemoteIP(c)),
                                   ": "),
                               Join(str))
                    f == Dispatch(Note(d, "line", i, c, Join(str)), i, str)
                    out == SubSeq(f.wrote[c], Len(d.wrote[c]) + 1, Len(f.wrote[c]))
                IN  [f EXCEPT !.ev = Append(@, [Event("reply", i, c, Join(str))
                                                  EXCEPT !.out = out])]
           ELSE a
  IN  NoteN(e, "pass", i, c, "", WritesFrom(e, 1) - WritesFrom(s, 1))

RECURSIVE Drain(_, _)
Drain(s, i) ==
  IF s.halted \/ s.rx[s.tc[i].client] = <<>> THEN s
  ELSE Drain(ReadLine(s, i), i)

\* mutant: >= in place of > in the comparison with the timeout
IdleCheck_atTimeout(s, i) ==
  LET c == s.tc[i].client
      idle == Sub32(s.now, s.tc[i].lastActivity)
  IN  IF Gt32(idle, U32(TimeoutMs)) \/ idle = U32(TimeoutMs)
      THEN LET a == Logln(Log(s, "Telnet client timeout: "), RemoteIP(c))
               b == Stop(ClientPrint(a, c, "Connection timeout. Goodbye!\r\n"), c)
           IN  Note([b EXCEPT !.tc[i].connected = FALSE], "timeout", i, c, "")
      ELSE s

\* mutant: the difference is taken as a signed number, so that a clock value
\* below lastActivity never counts as idle
IdleCheck_signed(s, i) ==
  LET c == s.tc[i].client
  IN  IF /\ ~Gt32(s.tc[i].lastActivity, s.now)
         /\ Gt32(Sub32(s.now, s.tc[i].lastActivity), U32(TimeoutMs))
      THEN LET a == Logln(Log(s, "Telnet client timeout: "), RemoteIP(c))
               b == Stop(ClientPrint(a, c, "Connection timeout. Goodbye!\r\n"), c)
           IN  Note([b EXCEPT !.tc[i].connected = FALSE], "timeout", i, c, "")
      ELSE s

IdleCheck(s, i) ==
  LET c == s.tc[i].client
  IN  IF Gt32(Sub32(s.now, s.tc[i].lastActivity), U32(TimeoutMs))
      THEN LET a == Logln(Log(s, "Telnet client timeout: "), RemoteIP(c))
               b == Stop(ClientPrint(a, c, "Connection timeout. Goodbye!\r\n"), c)
           IN  Note([b EXCEPT !.tc[i].connected = FALSE], "timeout", i, c, "")
      ELSE s

\* mutant: a slot whose peer is gone is logged but stays marked connected
ServeSlot_keepsGone(s, i) ==
  LET t == s.tc[i]
  IN  IF t.connected /\ Connected(s, t.client)
      THEN LET a == Drain(s, i)
           IN  IF a.halted THEN a ELSE IdleCheck(a, i)
      ELSE IF t.connected
      THEN LET a == Logln(Log(s, "Telnet client disconnected: "), RemoteIP(t.client))
           IN  Note(a, "gone", i, t.client, "")
      ELSE s

\* the body of the for loop for slot i: a connected client is read and
\* checked for idleness, a client that is gone loses its slot
ServeSlot(s, i) ==
  LET t == s.tc[i]
  IN  IF t.connected /\ Connected(s, t.client)
      THEN LET a == Drain(s, i)
           IN  IF a.halted THEN a ELSE IdleCheck(a, i)
      ELSE IF t.connected
      THEN LET a == Logln(Log(s, "Telnet client disconnected: "), RemoteIP(t.client))
           IN  Note([a EXCEPT !.tc[i].connected = FALSE], "gone", i, t.client, "")
      ELSE s

RECURSIVE ServeFrom(_, _)
ServeFrom(s, i) ==
  IF i >= MAX_TELNET_CLIENTS \/ s.halted THEN s
  ELSE ServeFrom(ServeSlot(s, i), i + 1)

(***************************************************************************)
(* What the peers can send                                                 *)
(***************************************************************************)
Line(str) == str \o <<LF>>

Chars_help == <<"h", "e", "l", "p">>
Chars_status == <<"s", "t", "a", "t", "u", "s">>
Chars_restart == <<"r", "e", "s", "t", "a", "r", "t">>
Chars_factoryreset == <<"f", "a", "c", "t", "o", "r", "y", "r", "e", "s", "e", "t">>
Chars_clients == <<"c", "l", "i", "e", "n", "t", "s">>
Chars_wifi == <<"w", "i", "f", "i">>
Chars_memory == <<"m", "e", "m", "o", "r", "y">>
Chars_config == <<"c", "o", "n", "f", "i", "g">>
Chars_clear == <<"c", "l", "e", "a", "r">>
Chars_cls == <<"c", "l", "s">>
Chars_disconnect == <<"d", "i", "s", "c", "o", "n", "n", "e", "c", "t">>
Chars_foobar == <<"f", "o", "o", "b", "a", "r">>
Chars_sensors == <<"s", "e", "n", "s", "o", "r", "s">>
Chars_reboot == <<"r", "e", "b", "o", "o", "t">>

BuiltinLines ==
  { Line(Chars_help), Line(<<"?">>), Line(Chars_status), Line(Chars_restart),
    Line(Chars_factoryreset), Line(Chars_clients), Line(Chars_wifi),
    Line(Chars_memory), Line(Chars_config), Line(Chars_clear), Line(Chars_cls),
    Line(Chars_disconnect) }

OtherChunks ==
  { Line(Chars_foobar),                                  \* no built-in
    Line(<<"H", "E", "L", "P">>),                        \* a built-in in upper case
    <<" ">> \o Chars_help \o <<" ", "\r", LF>>,          \* blanks around a built-in
    <<" ">> \o Chars_foobar \o <<"\r", LF>>,             \* blanks around no built-in
    <<"\r", LF>>,                                        \* an empty line
    <<"h", "e">>, <<"l", "p", LF>>,                      \* a line in two parts
    Line(Chars_disconnect) \o Line(Chars_status),        \* two lines at once
    Line(Chars_sensors), Line(Chars_reboot),             \* commands of the hook
    Line(Chars_set_temp \o <<"5">>) }

Chunks == BuiltinLines \cup OtherChunks

(***************************************************************************)
(* The state machine                                                       *)
(***************************************************************************)
NoWrites == [c \in Conns |-> <<>>]

NoCall ==
  [op |-> "none", pre |-> <<>>, prePending |-> <<>>, preLive |-> <<>>,
   preRx |-> <<>>, adm |-> <<>>, admLive |-> <<>>, ev |-> <<>>]

\* the record of an operation that turned state a (a == Cur for all but
\* handleTelnet, where a is the state after the admission step) into state b
Called(op, a, b) ==
  [op |-> op, pre |-> telnetClients, prePending |-> pending, preLive |-> live,
   preRx |-> rx, adm |-> a.tc, admLive |-> a.live, ev |-> b.ev]

\* the constructor, then begin() with telnet enabled: begin() returns only
\* with the link up, sets isConnected, and passes the onConnected call site
\* before setup() has registered any callback
Init ==
  /\ telnetClients = [i \in Slots |->
                        [connected |-> FALSE, client |-> 0, lastActivity |-> U32(0)]]
  /\ live = [c \in Conns |-> FALSE]
  /\ rx = [c \in Conns |-> <<>>]
  /\ pending = <<>>
  /\ nextConn = 1
  /\ now = U32(0)
  /\ ticks = 0
  /\ enableTelnet = TRUE
  /\ telnetCommandCallback = FALSE
  /\ halted = FALSE
  /\ cleared = FALSE
  /\ removeOk = TRUE
  /\ broken = {}
  /\ wrote = NoWrites
  /\ call = NoCall
  /\ ret = -1
  /\ isConnected = TRUE
  /\ linkUp = TRUE
  /\ lastReconnectAttempt = U32(0)
  /\ onConnectedCallback = FALSE
  /\ onDisconnectedCallback = FALSE
  /\ onConfigChangedCallback = FALSE
  /\ lastSite = "onConnected"
  /\ reconnectedAt = -1
  /\ idleFor = [i \in Slots |-> <<0, 0>>]

Cur ==
  [tc |-> telnetClients, live |-> live, rx |-> rx,
   pending |-> pending, now |-> now, en |-> enableTelnet,
   hook |-> telnetCommandCallback, halted |-> halted, cleared |-> cleared,
   removeOk |-> removeOk, broken |-> broken,
   wrote |-> NoWrites, ev |-> NoEvents]

Install(s) ==
  /\ telnetClients' = s.tc
  /\ live' = s.live
  /\ rx' = s.rx
  /\ pending' = s.pending
  /\ halted' = s.halted
  /\ cleared' = s.cleared
  /\ wrote' = s.wrote

\* a + d for a time a of any size and a step d below 2^31
AddWide(a, d) ==
  <<a[1] + (d \div Half) + ((a[2] + (d % Half)) \div Half), (a[2] + (d % Half)) % Half>>

\* the time since each slot's last admission or line once a call that came
\* d after the previous one has left the events ev
IdleAfter(ev, d) ==
  [i \in Slots |->
     IF \E k \in 1 .. Len(ev) : ev[k].slot = i /\ ev[k].kind \in {"accept", "line"}
     THEN <<0, 0>>
     ELSE AddWide(idleFor[i], d)]

\* loop(): handleTelnet() is called while config.enableTelnet; millis() is
\* d later than at the previous call, after at most maxTicks advances
HandleTelnet(d, maxTicks) ==
  /\ ~halted
  /\ enableTelnet
  /\ d # 0 => ticks < maxTicks
  /\ now' = Add32(now, U32(d))
  /\ ticks' = IF d = 0 THEN ticks ELSE ticks + 1
  /\ LET a == Admission([Cur EXCEPT !.now = Add32(now, U32(d))])
         b == ServeFrom(a, 0)
     IN  /\ Install(b)
         /\ call' = Called("handleTelnet", a, b)
         /\ idleFor' = IdleAfter(b.ev, d)
  /\ ret' = -1
  /\ UNCHANGED <<wifiVars, removeOk, broken, nextConn, enableTelnet, telnetCommandCallback>>

\* getTelnetClientCount() called from outside handleTelnet
CallGetTelnetClientCount ==
  /\ ~halted
  /\ ret' = GetTelnetClientCount(Cur)
  /\ wrote' = NoWrites
  /\ call' = Called("getTelnetClientCount", Cur, Cur)
  /\ UNCHANGED <<wifiVars, idleFor, removeOk, broken, telnetClients, live, rx, pending, nextConn, now, ticks,
                 enableTelnet, telnetCommandCallback, halted, cleared>>

\* disconnectTelnetClients() called from outside handleTelnet
CallDisconnectTelnetClients ==
  /\ ~halted
  /\ Install(DisconnectTelnetClients(Cur))
  /\ call' = Called("disconnectTelnetClients", Cur, DisconnectTelnetClients(Cur))
  /\ ret' = -1
  /\ UNCHANGED <<wifiVars, idleFor, removeOk, broken, nextConn, now, ticks, enableTelnet, telnetCommandCallback>>

BroadcastText == "System broadcast\r\n"

\* broadcastTelnet(message) called by the application
CallBroadcastTelnet ==
  /\ ~halted
  /\ Install(BroadcastTelnet(Cur, BroadcastText))
  /\ call' = Called("broadcastTelnet", Cur, BroadcastTelnet(Cur, BroadcastText))
  /\ ret' = -1
  /\ UNCHANGED <<wifiVars, idleFor, removeOk, broken, nextConn, now, ticks, enableTelnet, telnetCommandCallback>>

\* setConfig(newConfig) with newConfig.enableTelnet = en, then saveConfig()
SetConfig(en) ==
  /\ ~halted
  /\ en # enableTelnet
  /\ enableTelnet' = en
  /\ Install(Logln([Cur EXCEPT !.en = en], "Configuration saved successfully"))
  /\ call' = NoCall
  /\ ret' = -1
  /\ UNCHANGED <<wifiVars, idleFor, removeOk, broken, nextConn, now, ticks, telnetCommandCallback>>

\* onTelnetCommand(callback)
OnTelnetCommand(cb) ==
  /\ ~halted
  /\ cb # telnetCommandCallback
  /\ telnetCommandCallback' = cb
  /\ wrote' = NoWrites
  /\ call' = NoCall
  /\ ret' = -1
  /\ UNCHANGED <<wifiVars, idleFor, removeOk, broken, telnetClients, live, rx, pending, nextConn, now, ticks,
                 enableTelnet, halted, cleared>>

\* a peer opens a connection to the telnet port
NewConnection(maxConn) ==
  /\ ~halted
  /\ nextConn <= maxConn
  /\ pending' = Append(pending, nextConn)
  /\ live' = [live EXCEPT ![nextConn] = TRUE]
  /\ nextConn' = nextConn + 1
  /\ wrote' = NoWrites
  /\ call' = NoCall
  /\ ret' = -1
  /\ UNCHANGED <<wifiVars, idleFor, removeOk, broken, telnetClients, rx, now, ticks, enableTelnet,
                 telnetCommandCallback, halted, cleared>>

\* the peer of socket c sends the bytes of chunk: a new line once its
\* earlier lines were read, or more bytes of a line it has begun
Send(c, chunk) ==
  /\ ~halted
  /\ c < nextConn
  /\ live[c]
  /\ Len(rx[c]) <= MaxBacklog
  /\ IndexOf(rx[c], LF, 1) = 0
  /\ Cardinality({d \in Conns \ {c} : rx[d] # <<>>}) < MaxBusy
  /\ rx' = [rx EXCEPT ![c] = @ \o chunk]
  /\ wrote' = NoWrites
  /\ call' = NoCall
  /\ ret' = -1
  /\ UNCHANGED <<wifiVars, idleFor, removeOk, broken, telnetClients, live, pending, nextConn, now, ticks,
                 enableTelnet, telnetCommandCallback, halted, cleared>>

\* the peer of socket c closes or loses the connection; handleTelnet reads
\* a socket only while it is connected, so its unread bytes are gone
PeerDisconnect(c) ==
  /\ ~halted
  /\ c < nextConn
  /\ live[c]
  /\ live' = [live EXCEPT ![c] = FALSE]
  /\ rx' = [rx EXCEPT ![c] = <<>>]
  /\ wrote' = NoWrites
  /\ call' = NoCall
  /\ ret' = -1
  /\ UNCHANGED <<wifiVars, idleFor, removeOk, broken, telnetClients, pending, nextConn, now, ticks,
                 enableTelnet, telnetCommandCallback, halted, cleared>>

\* the flash file system starts or stops refusing to remove the config file
StorageFault(ok) ==
  /\ ~halted
  /\ ok # removeOk
  /\ removeOk' = ok
  /\ wrote' = NoWrites
  /\ call' = NoCall
  /\ ret' = -1
  /\ UNCHANGED <<wifiVars, idleFor, broken, telnetClients, live, rx, pending, nextConn, now, ticks,
                 enableTelnet, telnetCommandCallback, halted, cleared>>

\* the peer of socket c stops taking data while the socket still counts as
\* connected: from now on print() on it fails
BreakSocket(c) ==
  /\ ~halted
  /\ c < nextConn
  /\ live[c]
  /\ c \notin broken
  /\ broken' = broken \cup {c}
  /\ wrote' = NoWrites
  /\ call' = NoCall
  /\ ret' = -1
  /\ UNCHANGED <<wifiVars, idleFor, removeOk, telnetClients, live, rx, pending, nextConn, now, ticks,
                 enableTelnet, telnetCommandCallback, halted, cleared>>

(***************************************************************************)
(* loop() as a whole: handleTelnet() while telnet is enabled, then the     *)
(* supervision of the WiFi link                                            *)
(***************************************************************************)
ReconnectMs == 10000

IPAddress == "192.168.4.2"

\* F applied to the state that x evaluates to: the statements of F run
\* after those that produce x
After(x, F(_)) == CHOOSE r \in {F(y) : y \in {x}} : TRUE

\* onWifiConnected() of Main.cpp
OnWifiConnected(s) ==
  After(After(After(Logln(s, "WiFi Connected!"),
                    LAMBDA a : Logln(Log(a, "Access dashboard: http://"), IPAddress)),
              LAMBDA b : Logln(Log(b, "Telnet access: telnet "), IPAddress)),
        LAMBDA c : BroadcastTelnet(c, "Device connected to WiFi: \r\n"))

\* onWifiDisconnected() of Main.cpp
OnWifiDisconnected(s) ==
  After(Logln(s, "WiFi Disconnected!"),
        LAMBDA a : BroadcastTelnet(a, "WiFi connection lost!\r\n"))

\* onConfigChanged() of Main.cpp
OnConfigChanged(s) ==
  After(After(After(Logln(s, "Configuration changed - reloading settings"),
                    LAMBDA a : Logln(Log(a, "New device name: "), "AdvancedSensorDevice")),
              LAMBDA b : Logln(Log(b, "New theme: "), "dark")),
        LAMBDA c : BroadcastTelnet(c, "Configuration updated. Device: \r\n"))

\* mutant: the flag is left set when the link is found down
LinkLost_keepsFlag(s) ==
  After(Note(Logln(s, "WiFi disconnected"), "lost", -1, 0, ""),
        LAMBDA b : IF b.onDisconnectedCallback
                   THEN OnWifiDisconnected(Note(b, "onDisconnected", -1, 0, ""))
                   ELSE b)

\* the link is found down while isConnected is set
LinkLost(s) ==
  After(Note(Logln([s EXCEPT !.isConnected = FALSE], "WiFi disconnected"),
             "lost", -1, 0, ""),
        LAMBDA b : IF b.onDisconnectedCallback
                   THEN OnWifiDisconnected(Note(b, "onDisconnected", -1, 0, ""))
                   ELSE b)

\* the link is found up while isConnected is clear
LinkBack(s) ==
  After(Note(Logln([s EXCEPT !.isConnected = TRUE], "WiFi reconnected"),
             "back", -1, 0, ""),
        LAMBDA b : IF b.onConnectedCallback
                   THEN OnWifiConnected(Note(b, "onConnected", -1, 0, ""))
                   ELSE b)

\* WiFi.reconnect() once more than ReconnectMs have passed since the last
Reconnect(s) ==
  IF Gt32(Sub32(s.now, s.lastReconnectAttempt), U32(ReconnectMs))
  THEN [Note(Logln(s, "Attempting WiFi reconnection..."), "reconnect", -1, 0, "")
          EXCEPT !.lastReconnectAttempt = s.now]
  ELSE s

\* the part of loop() headed "Handle WiFi reconnection"
WifiReconnection(s) ==
  IF ~s.linkUp
  THEN After(IF s.isConnected THEN LinkLost(s) ELSE s, Reconnect)
  ELSE IF ~s.isConnected THEN LinkBack(s)
  ELSE s

\* the state loop() works on: that of the telnet server and of the link
CurLoop ==
  [tc |-> telnetClients, live |-> live, rx |-> rx,
   pending |-> pending, now |-> now, en |-> enableTelnet,
   hook |-> telnetCommandCallback, halted |-> halted, cleared |-> cleared,
   removeOk |-> removeOk, broken |-> broken,
   wrote |-> NoWrites, ev |-> NoEvents,
   isConnected |-> isConnected, linkUp |-> linkUp,
   lastReconnectAttempt |-> lastReconnectAttempt,
   onConnectedCallback |-> onConnectedCallback,
   onDisconnectedCallback |-> onDisconnectedCallback]

\* the kinds of the events of sequence ev that are among kinds, in order
KindsIn(ev, kinds) == SelectSeq(ev, LAMBDA e : e.kind \in kinds)

\* the state in which loop() finds the server when millis() is d later than
\* at the previous call, and the state after its admission step
AtLoop(d) == [CurLoop EXCEPT !.now = Add32(now, U32(d))]

Admitted(d) == IF enableTelnet THEN Admission(AtLoop(d)) ELSE AtLoop(d)

\* the WiFi part of loop(); a restart ordered by a telnet command ends the
\* process before it is reached
WifiPart(s) == IF s.halted THEN s ELSE WifiReconnection(s)

\* the body of loop(): handleTelnet() while config.enableTelnet, then the
\* WiFi part
LoopBody(d) ==
  After(IF enableTelnet THEN ServeFrom(Admitted(d), 0) ELSE AtLoop(d), WifiPart)

\* the connectivity call site that was reached last once events ev are added
SiteAfter(ev) ==
  IF KindsIn(ev, {"lost", "back"}) = <<>> THEN lastSite
  ELSE IF KindsIn(ev, {"lost", "back"})[Len(KindsIn(ev, {"lost", "back"}))].kind = "lost"
  THEN "onDisconnected"
  ELSE "onConnected"

\* loop(), after at most maxTicks advances of the clock
Loop(d, maxTicks) ==
  /\ ~halted
  /\ d # 0 => ticks < maxTicks
  /\ now' = Add32(now, U32(d))
  /\ ticks' = IF d = 0 THEN ticks ELSE ticks + 1
  /\ \E c \in {LoopBody(d)} :
       /\ Install(c)
       /\ isConnected' = c.isConnected
       /\ lastReconnectAttempt' = c.lastReconnectAttempt
       /\ call' = Called("loop", Admitted(d), c)
       /\ lastSite' = SiteAfter(c.ev)
       /\ idleFor' = IdleAfter(c.ev, d)
       /\ reconnectedAt' = IF KindsIn(c.ev, {"reconnect"}) = <<>>
                            THEN reconnectedAt
                            ELSE Val(Add32(now, U32(d)))
  /\ ret' = -1
  /\ UNCHANGED <<removeOk, broken, nextConn, enableTelnet, telnetCommandCallback,
                 linkUp, onConnectedCallback, onDisconnectedCallback,
                 onConfigChangedCallback>>

\* the access point or the radio changes the state of the WiFi link
LinkChange(up) ==
  /\ ~halted
  /\ up # linkUp
  /\ linkUp' = up
  /\ wrote' = NoWrites
  /\ call' = NoCall
  /\ ret' = -1
  /\ UNCHANGED <<removeOk, broken, telnetClients, live, rx, pending, nextConn, now,
                 ticks, enableTelnet, telnetCommandCallback, halted, cleared,
                 isConnected, lastReconnectAttempt, onConnectedCallback,
                 onDisconnectedCallback, onConfigChangedCallback, lastSite,
                 reconnectedAt, idleFor>>

\* onConnected(callback)
OnConnected(cb) ==
  /\ ~halted
  /\ cb # onConnectedCallback
  /\ onConnectedCallback' = cb
  /\ wrote' = NoWrites
  /\ call' = NoCall
  /\ ret' = -1
  /\ UNCHANGED <<removeOk, broken, telnetClients, live, rx, pending, nextConn, now,
                 ticks, enableTelnet, telnetCommandCallback, halted, cleared,
                 isConnected, linkUp, lastReconnectAttempt,
                 onDisconnectedCallback, onConfigChangedCallback, lastSite,
                 reconnectedAt, idleFor>>

\* onDisconnected(callback)
OnDisconnected(cb) ==
  /\ ~halted
  /\ cb # onDisconnectedCallback
  /\ onDisconnectedCallback' = cb
  /\ wrote' = NoWrites
  /\ call' = NoCall
  /\ ret' = -1
  /\ UNCHANGED <<removeOk, broken, telnetClients, live, rx, pending, nextConn, now,
                 ticks, enableTelnet, telnetCommandCallback, halted, cleared,
                 isConnected, linkUp, lastReconnectAttempt,
                 onConnectedCallback, onConfigChangedCallback, lastSite,
                 reconnectedAt, idleFor>>

\* onConfigChanged(callback)
OnConfigChangedSet(cb) ==
  /\ ~halted
  /\ cb # onConfigChangedCallback
  /\ onConfigChangedCallback' = cb
  /\ wrote' = NoWrites
  /\ call' = NoCall
  /\ ret' = -1
  /\ UNCHANGED <<removeOk, broken, telnetClients, live, rx, pending, nextConn, now,
                 ticks, enableTelnet, telnetCommandCallback, halted, cleared,
                 isConnected, linkUp, lastReconnectAttempt,
                 onConnectedCallback, onDisconnectedCallback, lastSite,
                 reconnectedAt, idleFor>>

\* saveConfig(), then the registered onConfigChanged callback
Saved(en) ==
  After(Logln([Cur EXCEPT !.en = en], "Configuration saved successfully"),
        LAMBDA a : IF onConfigChangedCallback THEN OnConfigChanged(a) ELSE a)

\* POST /api/config with a body that holds enableTelnet = en: the field is
\* stored, saveConfig() runs, then the registered callback
HandleAPIConfig(en) ==
  /\ ~halted
  /\ enableTelnet' = en
  /\ \E b \in {Saved(en)} : Install(b)
  /\ call' = NoCall
  /\ ret' = -1
  /\ UNCHANGED <<wifiVars, idleFor, removeOk, broken, nextConn, now, ticks,
                 telnetCommandCallback>>

\* The calls that need no input
Calls ==
  \/ CallGetTelnetClientCount
  \/ CallDisconnectTelnetClients
  \/ CallBroadcastTelnet

(* Slot table: up to MaxConn sockets, the disconnect command, and a clock *)
(* that can jump past the idle timeout.                                    *)
TableChunks == { Line(Chars_disconnect) }

TableSteps == { TimeoutMs + 1 }

Next ==
  \/ \E d \in {0} \cup TableSteps : HandleTelnet(d, MaxTicks)
  \/ Calls
  \/ \E en \in BOOLEAN : SetConfig(en)
  \/ NewConnection(MaxConn)
  \/ \E c \in Conns, chunk \in TableChunks : Send(c, chunk)
  \/ \E c \in Conns : PeerDisconnect(c)

Spec == Init /\ [][Next]_vars

(* Idle timeout: a clock that advances by one millisecond or by the        *)
(* timeout, with lines that do and do not count as activity.               *)
IdleChunks == { Line(Chars_help), <<"\r", LF>>, Line(Chars_disconnect) }

IdleSteps == { 1, TimeoutMs }

NextIdle ==
  \/ \E d \in {0} \cup IdleSteps : HandleTelnet(d, IdleTicks)
  \/ Calls
  \/ NewConnection(IdleConn)
  \/ \E c \in Conns, chunk \in IdleChunks : Send(c, chunk)
  \/ \E c \in Conns : PeerDisconnect(c)

SpecIdle == Init /\ [][NextIdle]_vars

(* Lines and commands: every chunk, with and without the command hook.     *)
NextLine ==
  \/ HandleTelnet(0, 0)
  \/ Calls
  \/ \E cb \in BOOLEAN : OnTelnetCommand(cb)
  \/ NewConnection(LineConn)
  \/ \E c \in Conns, chunk \in Chunks : Send(c, chunk)
  \/ \E c \in Conns : PeerDisconnect(c)

SpecLine == Init /\ [][NextLine]_vars

(* Factory reset: the command among others, and a file system that can     *)
(* refuse the removal of the config file.                                  *)
ResetChunks ==
  { Line(Chars_restart), Line(Chars_factoryreset), Line(Chars_help),
    Line(Chars_foobar) }

NextReset ==
  \/ HandleTelnet(0, 0)
  \/ Calls
  \/ NewConnection(ResetConn)
  \/ \E c \in Conns, chunk \in ResetChunks : Send(c, chunk)
  \/ \E c \in Conns : PeerDisconnect(c)
  \/ \E ok \in BOOLEAN : StorageFault(ok)

SpecReset == Init /\ [][NextReset]_vars

(* What leads to a restart: more sockets than slots, the two commands and  *)
(* an unknown one, peers that go away, a clock that can jump past the idle *)
(* timeout, and broadcasts.                                                *)
CauseChunks ==
  { Line(Chars_restart), Line(Chars_factoryreset), Line(Chars_foobar) }

CauseSteps == { TimeoutMs + 1 }

\* one socket more than there are slots
CauseConn == MAX_TELNET_CLIENTS + 1

NextCause ==
  \/ \E d \in {0} \cup CauseSteps : HandleTelnet(d, CauseTicks)
  \/ CallBroadcastTelnet
  \/ NewConnection(CauseConn)
  \/ \E c \in Conns, chunk \in CauseChunks : Send(c, chunk)
  \/ \E c \in Conns : PeerDisconnect(c)

SpecCause == Init /\ [][NextCause]_vars

(* Two clients: commands that evict, a command of the hook, two lines in   *)
(* one burst, a clock that can jump past the idle timeout, and the mass    *)
(* disconnect.                                                             *)
PairChunks ==
  { Line(Chars_disconnect), Line(Chars_disconnect) \o Line(Chars_status),
    Line(Chars_sensors) }

PairSteps == { TimeoutMs + 1 }

NextPair ==
  \/ \E d \in {0} \cup PairSteps : HandleTelnet(d, PairTicks)
  \/ Calls
  \/ \E cb \in BOOLEAN : OnTelnetCommand(cb)
  \/ NewConnection(PairConn)
  \/ \E c \in Conns, chunk \in PairChunks : Send(c, chunk)
  \/ \E c \in Conns : PeerDisconnect(c)

SpecPair == Init /\ [][NextPair]_vars

(* Progress: loop() keeps being called and the clock keeps advancing while *)
(* the configuration is changed through setConfig and POST /api/config;    *)
(* the clients send nothing.                                               *)
LiveStep == TimeoutMs + 1

NextLive ==
  \/ \E d \in {0, LiveStep} : Loop(d, LiveTicks)
  \/ \E en \in BOOLEAN : SetConfig(en)
  \/ \E en \in BOOLEAN : HandleAPIConfig(en)
  \/ \E cb \in BOOLEAN : OnConfigChangedSet(cb)
  \/ NewConnection(LiveConn)
  \/ \E c \in Conns : PeerDisconnect(c)

\* what a call Loop(LiveStep, LiveTicks) does to the count of clock
\* advances; no other step of NextLive changes ticks
ClockAdvances == ~halted /\ ticks < LiveTicks /\ ticks' = ticks + 1

\* loop() is called for ever by the Arduino runtime and millis() advances:
\* the call of loop() that finds the clock advanced is weakly fair
SpecLive ==
  /\ Init
  /\ [][NextLive]_vars
  /\ WF_ticks(ClockAdvances)

(* Clock wrap: steps of almost 2^31 ms bring millis() to the end of its    *)
(* 32-bit range, steps of the timeout and of one millisecond take it over. *)
WrapChunks == { Line(Chars_help) }

WrapSteps == { 2147483647, TimeoutMs, 1 }

NextWrap ==
  \/ \E d \in {0} \cup WrapSteps : HandleTelnet(d, WrapTicks)
  \/ NewConnection(WrapConn)
  \/ \E c \in Conns, chunk \in WrapChunks : Send(c, chunk)
  \/ \E c \in Conns : PeerDisconnect(c)

SpecWrap == Init /\ [][NextWrap]_vars

(* WiFi supervision: the link goes down and comes back between calls of    *)
(* loop(), callbacks are registered and removed, and the clock advances by *)
(* one millisecond or by the reconnect interval.                           *)
WifiSteps == { 1, ReconnectMs }

NextWifi ==
  \/ \E d \in {0} \cup WifiSteps : Loop(d, WifiTicks)
  \/ \E up \in BOOLEAN : LinkChange(up)
  \/ \E cb \in BOOLEAN : OnConnected(cb)
  \/ \E cb \in BOOLEAN : OnDisconnected(cb)
  \/ NewConnection(WifiConn)

SpecWifi == Init /\ [][NextWifi]_vars

(* Failing writes: sockets on which print() fails, with a command reply    *)
(* and a broadcast written to them.                                        *)
WriteChunks == { Line(Chars_help) }

NextWrite ==
  \/ HandleTelnet(0, 0)
  \/ CallBroadcastTelnet
  \/ NewConnection(WriteConn)
  \/ \E c \in Conns, chunk \in WriteChunks : Send(c, chunk)
  \/ \E c \in Conns : BreakSocket(c)
  \/ \E c \in Conns : PeerDisconnect(c)

SpecWrite == Init /\ [][NextWrite]_vars

(***************************************************************************)
(* Vocabulary of the properties                                            *)
(***************************************************************************)
Handled == call.op = "handleTelnet"

EvIdx == 1 .. Len(call.ev)

HasEv(kind, conn) ==
  \E k \in EvIdx : call.ev[k].kind = kind /\ call.ev[k].conn = conn

Occupied(tc) == {i \in Slots : tc[i].connected}

\* slots that are occupied by a socket that is connected
LiveOccupied(tc, lv) ==
  {i \in Slots : tc[i].connected /\ tc[i].client # 0 /\ lv[tc[i].client]}

EvictKinds == {"disconnect", "timeout", "gone", "shutdown"}

BuiltinNames ==
  {"help", "?", "status", "restart", "factoryreset", "clients", "wifi",
   "memory", "config", "clear", "cls", "disconnect"}

TimeoutMessage == "Connection timeout. Goodbye!\r\n"

\* the "reply" event that closes the dispatch of the line noted at k
ReplyOf(k) ==
  CHOOSE r \in EvIdx :
    /\ r > k
    /\ call.ev[r].kind = "reply"
    /\ \A m \in (k + 1) .. (r - 1) : call.ev[m].kind # "reply"

\* the "read" event of the line noted at k
ReadOf(k) ==
  CHOOSE r \in EvIdx :
    /\ r < k
    /\ call.ev[r].kind = "read"
    /\ \A m \in (r + 1) .. (k - 1) : call.ev[m].kind # "read"

\* the read at r returned because the stream timeout ran out, not because
\* it met the terminator
TimedOut(r) == r > 1 /\ call.ev[r - 1].kind = "wait"

\* the bytes readStringUntil returned for the line noted at k
RawOf(k) ==
  LET r == CHOOSE r \in EvIdx :
             /\ r < k
             /\ call.ev[r].kind = "read"
             /\ \A m \in (r + 1) .. (k - 1) : call.ev[m].kind # "read"
  IN  call.ev[r].text

HooksOf(k) == {m \in (k + 1) .. (ReplyOf(k) - 1) : call.ev[m].kind = "hook"}

(***************************************************************************)
(* C1: with every slot occupied and a connection pending, handleTelnet     *)
(* rejects it: the capacity message is written to the new socket, the      *)
(* socket is closed and stored in no slot, the admission step changes no   *)
(* slot, and getTelnetClientCount() is what it was (3 when all are live).  *)
(***************************************************************************)
C1_RejectedWhenFull ==
  (Handled /\ call.prePending # <<>> /\ \A i \in Slots : call.pre[i].connected) =>
    LET c == Head(call.prePending)
    IN  /\ HasEv("reject", c)
        /\ wrote[c] = <<RejectMessage>>
        /\ HasEv("stop", c)
        /\ ~live[c]
        /\ \A i \in Slots : call.adm[i].client # c /\ telnetClients[i].client # c
        /\ call.adm = call.pre
        /\ Cardinality(LiveOccupied(call.adm, call.admLive))
             = Cardinality(LiveOccupied(call.pre, call.preLive))
        /\ (\A i \in Slots : call.preLive[call.pre[i].client]) =>
             Cardinality(LiveOccupied(call.adm, call.admLive)) = MAX_TELNET_CLIENTS

C1_Witness ==
  /\ Handled
  /\ call.prePending # <<>>
  /\ \A i \in Slots : call.pre[i].connected /\ call.preLive[call.pre[i].client]
  /\ wrote[Head(call.prePending)] = <<RejectMessage>>

(***************************************************************************)
(* C2: at most MAX_TELNET_CLIENTS slots are occupied, occupied slots hold  *)
(* different sockets, and the admission step stores a connection only in   *)
(* a slot whose connected flag is false: an occupied slot is not touched.  *)
(***************************************************************************)
C2_NoSharedSlot ==
  /\ Cardinality(Occupied(telnetClients)) <= MAX_TELNET_CLIENTS
  /\ \A i, j \in Slots :
       (i # j /\ telnetClients[i].connected /\ telnetClients[j].connected) =>
         telnetClients[i].client # telnetClients[j].client
  /\ Handled =>
       /\ \A i \in Slots : call.pre[i].connected => call.adm[i] = call.pre[i]
       /\ \A k \in EvIdx : call.ev[k].kind = "accept" =>
            /\ ~call.pre[call.ev[k].slot].connected
            /\ call.adm[call.ev[k].slot].client = call.ev[k].conn

C2_Witness ==
  /\ Handled
  /\ \E k \in EvIdx : call.ev[k].kind = "accept"
  /\ \E j \in Slots : call.pre[j].connected /\ ~call.preLive[call.pre[j].client]

(***************************************************************************)
(* C3: with a connection pending and a slot free, the admission step       *)
(* stores it in the lowest-index free slot with connected = true and       *)
(* lastActivity = now, leaves the socket that slot held before closed,     *)
(* and leaves every other slot as it was.                                  *)
(***************************************************************************)
C3_AdmitLowestFree ==
  (Handled /\ call.prePending # <<>> /\ \E i \in Slots : ~call.pre[i].connected) =>
    LET i == CHOOSE i \in Slots :
               /\ ~call.pre[i].connected
               /\ \A j \in Slots : j < i => call.pre[j].connected
        c == Head(call.prePending)
    IN  /\ call.adm[i] = [connected |-> TRUE, client |-> c, lastActivity |-> now]
        /\ \A j \in Slots \ {i} : call.adm[j] = call.pre[j]
        /\ call.pre[i].client # 0 => ~call.admLive[call.pre[i].client]
        /\ HasEv("accept", c)

C3_Witness ==
  /\ Handled
  /\ call.prePending # <<>>
  /\ call.pre[0].connected
  /\ ~call.pre[1].connected
  /\ call.pre[1].client # 0
  /\ call.adm[1].client = Head(call.prePending)
  /\ now # U32(0)

(***************************************************************************)
(* C4: one handleTelnet call takes at most one pending connection (one     *)
(* accept or one reject); a second pending connection is still pending     *)
(* when the call returns.                                                  *)
(***************************************************************************)
C4_OneAdmissionPerCall ==
  Handled =>
    /\ pending = IF call.prePending = <<>> THEN <<>> ELSE Tail(call.prePending)
    /\ Cardinality({k \in EvIdx : call.ev[k].kind \in {"accept", "reject"}})
         = IF call.prePending = <<>> THEN 0 ELSE 1

C4_Witness ==
  /\ Handled
  /\ Len(call.prePending) >= 2
  /\ pending # <<>>
  /\ pending[1] = call.prePending[2]

(***************************************************************************)
(* C5: getTelnetClientCount() returns the number of slots whose connected  *)
(* flag is true and whose socket is connected at the time of the call, a   *)
(* number in 0..MAX_TELNET_CLIENTS, and changes nothing.                   *)
(***************************************************************************)
C5_CountIsLiveOccupied ==
  call.op = "getTelnetClientCount" =>
    /\ ret = Cardinality(LiveOccupied(call.pre, call.preLive))
    /\ ret \in 0 .. MAX_TELNET_CLIENTS
    /\ telnetClients = call.pre
    /\ live = call.preLive
    /\ pending = call.prePending
    /\ wrote = NoWrites

C5_Witness ==
  /\ call.op = "getTelnetClientCount"
  /\ ret >= 1
  /\ ret < Cardinality(Occupied(telnetClients))

(***************************************************************************)
(* C6: eviction is idempotent: disconnectTelnetClients() with no slot      *)
(* occupied writes nothing and changes nothing; every eviction of an       *)
(* operation hits a slot that was occupied, no slot is evicted twice and   *)
(* no socket is closed twice in one operation.                             *)
(***************************************************************************)
C6_EvictionIdempotent ==
  /\ (call.op = "disconnectTelnetClients" /\ \A i \in Slots : ~call.pre[i].connected) =>
       /\ wrote = NoWrites
       /\ telnetClients = call.pre
       /\ live = call.preLive
       /\ call.ev = <<>>
  /\ call.op \in {"disconnectTelnetClients", "handleTelnet"} =>
       \A k \in EvIdx :
         /\ call.ev[k].kind \in EvictKinds =>
              /\ call.adm[call.ev[k].slot].connected
              /\ call.adm[call.ev[k].slot].client = call.ev[k].conn
              /\ \A m \in EvIdx \ {k} :
                   call.ev[m].kind \in EvictKinds => call.ev[m].slot # call.ev[k].slot
         /\ call.ev[k].kind = "stop" =>
              \A m \in EvIdx \ {k} :
                call.ev[m].kind = "stop" => call.ev[m].conn # call.ev[k].conn

C6_Witness ==
  /\ call.op = "disconnectTelnetClients"
  /\ \A i \in Slots : ~call.pre[i].connected
  /\ \E i \in Slots : call.pre[i].client # 0

(***************************************************************************)
(* C7: in a handleTelnet call a slot is evicted for idle timeout exactly   *)
(* when it is served (occupied and connected) and now - lastActivity at    *)
(* its idle check is greater than 600000 ms; the evicted socket gets the   *)
(* goodbye message and is closed, and connected becomes false.             *)
(***************************************************************************)
C7_TimeoutExactly ==
  Handled =>
    \A i \in Slots :
      LET t == call.adm[i]
          served == t.connected /\ t.client # 0 /\ call.admLive[t.client]
          gotLine == \E k \in EvIdx : call.ev[k].kind = "line" /\ call.ev[k].slot = i
          la == IF gotLine THEN now ELSE t.lastActivity
          timedOut == \E k \in EvIdx : call.ev[k].kind = "timeout" /\ call.ev[k].slot = i
      IN  /\ timedOut <=> (served /\ Val(now) - Val(la) > TimeoutMs)
          /\ timedOut =>
               /\ ~telnetClients[i].connected
               /\ ~live[t.client]
               /\ HasEv("stop", t.client)
               /\ \E p \in 1 .. Len(wrote[t.client]) :
                    wrote[t.client][p] = TimeoutMessage

C7_Witness ==
  /\ Handled
  /\ \E k \in EvIdx :
       /\ call.ev[k].kind = "timeout"
       /\ Val(now) - Val(call.adm[call.ev[k].slot].lastActivity) = TimeoutMs + 1

(***************************************************************************)
(* C8: the line "disconnect" frees the slot of its sender within the same  *)
(* handleTelnet call: the socket is closed and connected is false, so the  *)
(* slot is free for the next admission.                                    *)
(***************************************************************************)
C8_DisconnectFreesSlot ==
  Handled =>
    \A k \in EvIdx :
      (call.ev[k].kind = "line" /\ call.ev[k].text = "disconnect") =>
        /\ ~telnetClients[call.ev[k].slot].connected
        /\ ~live[call.ev[k].conn]
        /\ HasEv("stop", call.ev[k].conn)
        /\ FirstFree(Cur, 0) <= call.ev[k].slot

\* the sender's slot is the lowest free one and a connection is pending:
\* the next call stores that connection in the same slot
C8_Witness ==
  /\ Handled
  /\ pending # <<>>
  /\ \E k \in EvIdx :
       /\ call.ev[k].kind = "line"
       /\ call.ev[k].text = "disconnect"
       /\ call.ev[k].slot > 0
       /\ FirstFree(Cur, 0) = call.ev[k].slot

(***************************************************************************)
(* C9: the output that the dispatch of a non-empty line writes to the      *)
(* sender's socket ends with the prompt "> ", for every built-in command   *)
(* that leaves the session open and for an unknown command without a      *)
(* hook; restart, factoryreset and disconnect end without a prompt.        *)
(***************************************************************************)
SessionEnders == {"restart", "factoryreset", "disconnect"}

CoreReply(k) ==
  /\ call.ev[k].kind = "reply"
  /\ call.ev[k].text \in BuiltinNames \/ ~telnetCommandCallback

EndsWithPrompt(out) == out # <<>> /\ out[Len(out)] = "> "

HookDiscipline(Arg(_)) ==
  Handled =>
    /\ \A k \in EvIdx :
         call.ev[k].kind = "line" =>
           IF call.ev[k].text \in BuiltinNames
           THEN /\ HooksOf(k) = {}
                /\ call.ev[ReplyOf(k)].out # <<UnknownMessage, "> ">>
           ELSE IF telnetCommandCallback
           THEN /\ Cardinality(HooksOf(k)) = 1
                /\ \A m \in HooksOf(k) :
                     /\ call.ev[m].text = Arg(k)
                     /\ call.ev[m].conn = call.adm[call.ev[k].slot].client
                     /\ call.ev[m].slot = call.ev[k].slot
           ELSE /\ HooksOf(k) = {}
                /\ call.ev[ReplyOf(k)].out = <<UnknownMessage, "> ">>
    /\ \A m \in EvIdx :
         call.ev[m].kind = "hook" =>
           \E k \in EvIdx : call.ev[k].kind = "line" /\ m \in HooksOf(k)

TrimmedOf(k) == call.ev[k].text

C10_HookOnlyOnMiss == HookDiscipline(TrimmedOf)

C10_Witness ==
  /\ Handled
  /\ \E k \in EvIdx :
       /\ call.ev[k].kind = "line"
       /\ call.ev[k].text = "foobar"
       /\ RawOf(k) # "foobar"
       /\ HooksOf(k) # {}

\* C10 as stated: the hook is given the raw line
C10_HookGetsRawLine == HookDiscipline(RawOf)

(***************************************************************************)
(* C11: while config.enableTelnet is set, broadcastTelnet(text) writes     *)
(* text exactly once to every slot that is marked connected and whose      *)
(* socket is connected, in ascending slot order, and to no other socket;   *)
(* with telnet disabled, or with no such slot, it writes nothing; in every *)
(* case it changes no slot and no socket.                                  *)
(***************************************************************************)
IsWrite(e) == e.kind = "write"

Broadcast == call.op = "broadcastTelnet"

\* the broadcast wrote BroadcastText once to each slot of target, in
\* ascending order, and nothing else, and left the slot table alone
BroadcastEffect(target) ==
  LET W == SelectSeq(call.ev, IsWrite)
  IN  /\ {W[k].slot : k \in 1 .. Len(W)} = target
      /\ \A k \in 1 .. Len(W) :
           /\ W[k].text = BroadcastText
           /\ W[k].conn = call.pre[W[k].slot].client
           /\ k < Len(W) => W[k].slot < W[k + 1].slot
      /\ \A c \in Conns :
           wrote[c] = IF \E i \in target : call.pre[i].client = c
                      THEN <<BroadcastText>> ELSE <<>>
      /\ telnetClients = call.pre
      /\ live = call.preLive

C11_BroadcastWhenEnabled ==
  Broadcast =>
    BroadcastEffect(IF enableTelnet THEN LiveOccupied(call.pre, call.preLive)
                    ELSE {})

C11_Witness ==
  /\ Broadcast
  /\ enableTelnet
  /\ Cardinality(LiveOccupied(call.pre, call.preLive)) = 2
  /\ Cardinality(Occupied(call.pre)) = 3
  /\ Len(SelectSeq(call.ev, IsWrite)) = 2

\* C11 as stated: every slot that is occupied and live gets the text
C11_BroadcastAlways ==
  Broadcast => BroadcastEffect(LiveOccupied(call.pre, call.preLive))

(***************************************************************************)
(* C12: a line whose bytes arrive in two service calls is dispatched once, *)
(* complete: no command is dispatched from a read that ended without       *)
(* meeting the terminator.                                                 *)
(***************************************************************************)
C12_SplitLineOnce ==
  Handled =>
    \A k \in EvIdx : call.ev[k].kind = "line" => ~TimedOut(ReadOf(k))

(***************************************************************************)
(* C13: a complete (terminated) line received from slot i sets             *)
(* lastActivity[i] to the current time, and a slot from which nothing was  *)
(* read keeps the lastActivity it had after the admission step.            *)
(***************************************************************************)
ReadsOf(i) == {k \in EvIdx : call.ev[k].kind = "read" /\ call.ev[k].slot = i}

C13_ActivityOnEveryLine ==
  Handled =>
    \A i \in Slots :
      /\ (\E k \in ReadsOf(i) : ~TimedOut(k)) => telnetClients[i].lastActivity = now
      /\ ReadsOf(i) = {} => telnetClients[i].lastActivity = call.adm[i].lastActivity

(***************************************************************************)
(* C14: a line that is empty after trimming is discarded: its pass through *)
(* the read loop ends right after the read, with no dispatch, no hook and  *)
(* not one piece written to any socket.                                    *)
(***************************************************************************)
Blanks == {" ", "\t", "\r"}

BlankTexts == {Join(x) : x \in UNION {[1 .. m -> Blanks] : m \in 0 .. 2}}

BlankRead(k) == call.ev[k].kind = "read" /\ call.ev[k].text \in BlankTexts

C14_BlankLineDiscarded ==
  Handled =>
    \A k \in EvIdx :
      BlankRead(k) =>
        /\ k < Len(call.ev)
        /\ call.ev[k + 1].kind = "pass"
        /\ call.ev[k + 1].n = 0

C14_Witness ==
  /\ Handled
  /\ telnetCommandCallback
  /\ \E k \in EvIdx : BlankRead(k) /\ call.ev[k].n = 1 /\ ~TimedOut(k)
  /\ wrote = NoWrites

(***************************************************************************)
(* C15: the dispatch of "factoryreset" writes the notice to the issuing    *)
(* socket, then clears the WiFi credentials and removes the config file,   *)
(* then evicts every slot that is still occupied, and last of all restarts *)
(* the device; it restarts whether or not the removal succeeded.           *)
(***************************************************************************)
LinesOf(text) == {k \in EvIdx : call.ev[k].kind = "line" /\ call.ev[k].text = text}

\* the events of kind kind inside the dispatch of the line noted at k
Within(k, kind) == {m \in (k + 1) .. (ReplyOf(k) - 1) : call.ev[m].kind = kind}

ResetNotice == "Factory reset...\r\n"

ResetLog == "Performing factory reset...\r\n"

C15_FactoryResetOrder ==
  Handled =>
    \A k \in LinesOf("factoryreset") :
      LET r == ReplyOf(k)
          c == call.ev[k].conn
      IN  /\ Cardinality(Within(k, "clear")) = 1
          /\ Cardinality(Within(k, "restart")) = 1
          /\ \A x \in Within(k, "clear"), y \in Within(k, "restart") :
               \* the notice is the first piece on the issuing socket, and
               \* the piece after it was written before the clearing
               /\ Len(call.ev[r].out) >= 2
               /\ call.ev[r].out[1] = ResetNotice
               /\ call.ev[r].out[2] = ResetLog
               /\ \E w \in Within(k, "write") :
                    w < x /\ call.ev[w].conn = c /\ call.ev[w].text = ResetLog
               \* every eviction lies between the clearing and the restart
               /\ x < y
               /\ \A m \in Within(k, "shutdown") : x < m /\ m < y
               /\ \A i \in Slots :
                    call.adm[i].connected =>
                      \/ \E m \in Within(k, "shutdown") : call.ev[m].slot = i
                      \/ \E m \in 1 .. (k - 1) :
                           call.ev[m].kind \in EvictKinds /\ call.ev[m].slot = i
               \* nothing follows the restart
               /\ y = r - 1
               /\ cleared = (call.ev[x].n = 1)
          /\ Occupied(telnetClients) = {}
          /\ halted

C15_Witness ==
  /\ Handled
  /\ \E k \in LinesOf("factoryreset") :
       /\ Cardinality(Within(k, "shutdown")) = 2
       /\ call.ev[k].slot = 0
  /\ Cardinality(Occupied(call.adm)) = 2
  /\ ~removeOk
  /\ ~cleared
  /\ halted

(***************************************************************************)
(* C16: the restart and the clearing of credentials and config happen only *)
(* inside the dispatch of the command "restart" or "factoryreset" (the     *)
(* clearing only inside "factoryreset"): no other step of handleTelnet and *)
(* no other operation reaches them.                                        *)
(***************************************************************************)
CausesOf(kind) ==
  IF kind = "clear" THEN {"factoryreset"} ELSE {"restart", "factoryreset"}

GoneSlots == Occupied(call.adm) \ LiveOccupied(call.adm, call.admLive)

C17_GoneFreedSameCall ==
  Handled =>
    \A i \in GoneSlots :
      LET c == call.adm[i].client
      IN  /\ \E k \in EvIdx : call.ev[k].kind = "gone" /\ call.ev[k].slot = i
          /\ \A k \in EvIdx : call.ev[k].slot = i => call.ev[k].kind # "timeout"
          /\ \A j \in 1 .. Len(wrote[c]) : wrote[c][j] # TimeoutMessage
          /\ ~telnetClients[i].connected
          /\ telnetClients[i].client = c
          /\ FirstFree([tc |-> telnetClients], 0) <= i

C17_Witness ==
  /\ Handled
  /\ GoneSlots = {1}
  /\ \E k \in EvIdx : call.ev[k].kind = "timeout" /\ call.ev[k].slot = 0
  /\ Gt32(Sub32(now, call.adm[1].lastActivity), U32(TimeoutMs))

(***************************************************************************)
(* C18: when a piece of a command reply cannot be written to the issuing   *)
(* socket, that slot is evicted in the same call (mark cleared, socket     *)
(* closed); when a piece of a broadcast cannot be written, nothing is      *)
(* evicted and every other occupied slot still gets the text.              *)
(***************************************************************************)
FailedReply(k) ==
  \E m \in Within(k, "writefail") : call.ev[m].conn = call.ev[k].conn

BroadcastSwallowsFailure ==
  (Broadcast /\ \E k \in EvIdx : call.ev[k].kind = "writefail") =>
    /\ telnetClients = call.pre
    /\ live = call.preLive
    /\ \A i \in LiveOccupied(call.pre, call.preLive) :
         call.pre[i].client \notin broken =>
           wrote[call.pre[i].client] = <<BroadcastText>>

C18_WriteFailureEvicts ==
  /\ Handled =>
       \A k \in EvIdx :
         (call.ev[k].kind = "line" /\ FailedReply(k)) =>
           /\ ~telnetClients[call.ev[k].slot].connected
           /\ ~live[call.ev[k].conn]
  /\ BroadcastSwallowsFailure

(***************************************************************************)
(* C19: the bytes read for one line never exceed a fixed maximum: a read   *)
(* that returns more is discarded, with a message to that client and no    *)
(* command dispatched from it.  The maximum is taken as small as it can    *)
(* be, the length of the longest built-in command.                         *)
(***************************************************************************)
LineMax == Len(Chars_factoryreset)

C19_LineTooLong ==
  Handled =>
    \A k \in EvIdx :
      (call.ev[k].kind = "read" /\ call.ev[k].n > LineMax) =>
        /\ \A m \in EvIdx : call.ev[m].kind = "line" => ReadOf(m) # k
        /\ \E p \in (k + 1) .. Len(call.ev) :
             /\ call.ev[p].kind = "pass"
             /\ call.ev[p].n >= 1
             /\ \A m \in (k + 1) .. (p - 1) : call.ev[m].kind # "pass"

(***************************************************************************)
(* C20: one handleTelnet call runs in strict order: the admission, then    *)
(* the lines of every slot in ascending order, and only then the idle      *)
(* evictions: no slot is evicted for idle timeout before the last line of  *)
(* the call has been dispatched.                                           *)
(***************************************************************************)
C20_StrictOrder ==
  Handled =>
    /\ \A a, k \in EvIdx :
         (call.ev[a].kind \in {"accept", "reject"} /\ call.ev[k].kind = "read")
           => a < k
    /\ \A k, m \in EvIdx :
         (call.ev[k].kind = "read" /\ call.ev[m].kind = "read" /\ k < m)
           => call.ev[k].slot <= call.ev[m].slot
    /\ \A k, m \in EvIdx :
         (call.ev[k].kind = "timeout" /\ call.ev[m].kind = "line") => m < k

(***************************************************************************)
(* C21: a slot evicted by the disconnect command is not handled again in   *)
(* the same handleTelnet call: after the eviction nothing more is read     *)
(* from it, neither the idle check nor the peer-gone branch acts on it,    *)
(* its socket is closed once, and the disconnect notice is the last piece  *)
(* written to it.                                                          *)
(***************************************************************************)
DisconnectNotice == "Disconnecting...\r\n"

C21_NoSecondProcessing ==
  Handled =>
    \A k \in EvIdx :
      call.ev[k].kind = "disconnect" =>
        LET i == call.ev[k].slot
            c == call.ev[k].conn
        IN  /\ \A m \in (k + 1) .. Len(call.ev) :
                 call.ev[m].slot = i => call.ev[m].kind \in {"reply", "pass"}
            /\ Cardinality({m \in EvIdx :
                              call.ev[m].kind = "stop" /\ call.ev[m].conn = c}) = 1
            /\ wrote[c] # <<>>
            /\ wrote[c][Len(wrote[c])] = DisconnectNotice
            /\ ~telnetClients[i].connected

C21_Witness ==
  /\ Handled
  /\ \E k \in EvIdx :
       /\ call.ev[k].kind = "disconnect"
       /\ Gt32(Sub32(now, call.adm[call.ev[k].slot].lastActivity), U32(TimeoutMs))
       /\ \E m \in (k + 1) .. Len(call.ev) : call.ev[m].kind = "timeout"

(***************************************************************************)
(* C22: in every reachable state a slot whose connected flag is false      *)
(* holds no live socket (it never had one, or the socket was closed by an  *)
(* eviction, or its peer has gone), and a free slot is eligible for the    *)
(* next admission: the scan for a free slot finds one at or below it, and  *)
(* a call of handleTelnet that finds a pending connection and a free slot  *)
(* admits into the lowest free slot and rejects nothing.  This holds after *)
(* the hook ran and after the mass disconnect as well.                     *)
(***************************************************************************)
FreeSlots(tc) == Slots \ Occupied(tc)

C22_FreeSlotHoldsNothing ==
  /\ \A i \in FreeSlots(telnetClients) :
        /\ ~Connected(Cur, telnetClients[i].client)
        /\ FirstFree(Cur, 0) <= i
  /\ (Handled /\ call.prePending # <<>> /\ FreeSlots(call.pre) # {}) =>
        /\ \E k \in EvIdx :
             /\ call.ev[k].kind = "accept"
             /\ call.ev[k].conn = Head(call.prePending)
             /\ call.ev[k].slot \in FreeSlots(call.pre)
             /\ \A j \in FreeSlots(call.pre) : call.ev[k].slot <= j
        /\ \A k \in EvIdx : call.ev[k].kind # "reject"

\* a connection is admitted into a slot that an earlier client was evicted
\* from, and the hook runs for it in the same call
C22_Witness ==
  /\ Handled
  /\ \E k \in EvIdx :
       /\ call.ev[k].kind = "accept"
       /\ call.ev[k].slot \in FreeSlots(call.pre)
       /\ call.pre[call.ev[k].slot].client # 0
       /\ \E m \in EvIdx : call.ev[m].kind = "hook" /\ call.ev[m].slot = call.ev[k].slot

(***************************************************************************)
(* C23: in every step, for every slot, lastActivity does not decrease (the *)
(* clock does not wrap here), and it changes only in a call of             *)
(* handleTelnet that admitted a connection into the slot or received a     *)
(* non-empty line from it, and then to the time of that call.              *)
(***************************************************************************)
TouchedIn(c, i) ==
  /\ c.op = "handleTelnet"
  /\ \E k \in 1 .. Len(c.ev) :
       c.ev[k].slot = i /\ c.ev[k].kind \in {"accept", "line"}

ActivityStep ==
  /\ Val(now') >= Val(now)
  /\ \A i \in Slots :
       /\ Val(telnetClients'[i].lastActivity) >= Val(telnetClients[i].lastActivity)
       /\ telnetClients'[i].lastActivity # telnetClients[i].lastActivity =>
            /\ telnetClients'[i].lastActivity = now'
            /\ TouchedIn(call', i)

C23_ActivityMonotonic == [][ActivityStep]_vars

\* a second client was admitted into a used slot at a later time, or a line
\* moved the slot's lastActivity forward
C23_Witness ==
  /\ Handled
  /\ \E i \in Slots :
       /\ call.pre[i].client # 0
       /\ Val(telnetClients[i].lastActivity) > Val(call.pre[i].lastActivity)
       /\ \E k \in EvIdx : call.ev[k].slot = i /\ call.ev[k].kind = "line"

(***************************************************************************)
(* C24 (as claimed; the code does not satisfy it): whenever handleTelnet   *)
(* rejects a pending connection, getTelnetClientCount() is                 *)
(* MAX_TELNET_CLIENTS at that moment, so that no connection is rejected    *)
(* while fewer than three clients are really connected.  The admission     *)
(* step looks at the connected flags alone and runs before the loop that   *)
(* clears the flag of a slot whose peer is gone.                           *)
(***************************************************************************)
CountAtAdmission ==
  GetTelnetClientCount([tc |-> call.pre, live |-> call.preLive])

C24_RejectOnlyWhenFull ==
  (Handled /\ \E k \in EvIdx : call.ev[k].kind = "reject") =>
    CountAtAdmission = MAX_TELNET_CLIENTS

(***************************************************************************)
(* C25: no command is dispatched for a slot after the slot was evicted.    *)
(* In a call of handleTelnet nothing is read, dispatched or handed to the  *)
(* hook for a slot after an eviction of that slot; the lines dispatched    *)
(* for a socket are the first non-empty lines of the bytes that this very  *)
(* socket had unread when the call began, up to and including the one that *)
(* evicted it; and a closed socket keeps no unread bytes, so that a later  *)
(* client of the same slot is never served lines of an earlier one.        *)
(***************************************************************************)
RECURSIVE LinesIn(_)
\* the non-empty trimmed lines that successive reads take out of buf
LinesIn(buf) ==
  IF buf = <<>> THEN <<>>
  ELSE LET r == ReadStringUntil(buf)
           str == Trim(r.str)
       IN  (IF Len(str) > 0 THEN <<Join(str)>> ELSE <<>>) \o LinesIn(r.rest)

\* the lines dispatched for socket c in the call, in order
DispatchedFor(c) ==
  SelectSeq(call.ev, LAMBDA e : e.kind = "line" /\ e.conn = c)

C25_NothingAfterEviction ==
  /\ \A c \in Conns : ~live[c] => rx[c] = <<>>
  /\ Handled =>
       /\ \A k \in EvIdx :
            call.ev[k].kind \in EvictKinds =>
              \A m \in (k + 1) .. Len(call.ev) :
                call.ev[m].slot = call.ev[k].slot =>
                  call.ev[m].kind \notin {"wait", "read", "line", "hook"}
       /\ \A k \in EvIdx :
            call.ev[k].kind \in {"read", "line", "hook"} =>
              /\ call.adm[call.ev[k].slot].connected
              /\ call.adm[call.ev[k].slot].client = call.ev[k].conn
              /\ call.admLive[call.ev[k].conn]
       /\ \A c \in Conns :
            LET sent == LinesIn(call.preRx[c])
                done == DispatchedFor(c)
            IN  /\ Len(done) <= Len(sent)
                /\ \A j \in 1 .. Len(done) : done[j].text = sent[j]
                /\ \A j \in 1 .. (Len(done) - 1) : done[j].text # "disconnect"

\* "disconnect" and "status" arrived in one burst: the first evicted the
\* slot and the second was not dispatched
C25_Witness ==
  /\ Handled
  /\ \E k \in EvIdx :
       /\ call.ev[k].kind = "disconnect"
       /\ LinesIn(call.preRx[call.ev[k].conn]) = <<"disconnect", "status">>
       /\ Len(DispatchedFor(call.ev[k].conn)) = 1
       /\ rx[call.ev[k].conn] = <<>>

(***************************************************************************)
(* C26: the text of a command is not confidential to its sender.  For      *)
(* every non-empty line received from slot i, handleTelnet prints that     *)
(* line, as a log record, to every slot that is occupied and live at that  *)
(* moment, slot i and the other slots alike, and it does so before the     *)
(* dispatch of the command writes its response to slot i.  The record      *)
(* reaches every such client whose socket still takes data.                *)
(***************************************************************************)
\* the slots that are occupied and live just before event k of the call
LiveAt(k) ==
  {j \in Slots :
     /\ call.adm[j].connected
     /\ call.admLive[call.adm[j].client]
     /\ \A m \in 1 .. (k - 1) :
          /\ ~(call.ev[m].kind \in EvictKinds /\ call.ev[m].slot = j)
          /\ ~(call.ev[m].kind = "stop" /\ call.ev[m].conn = call.adm[j].client)}

\* the broadcast prints of text between the read of the line noted at k
\* and the start of its dispatch
EchoesOf(k, text) ==
  {m \in (ReadOf(k) + 1) .. (k - 1) : IsWrite(call.ev[m]) /\ call.ev[m].text = text}

C26_CommandTextBroadcast ==
  Handled =>
    \A k \in EvIdx :
      call.ev[k].kind = "line" =>
        LET record == call.ev[k].text \o "\r\n"
        IN  /\ call.ev[k].slot \in LiveAt(k)
            /\ \A j \in LiveAt(k) :
                 /\ \E m \in EchoesOf(k, record) :
                      call.ev[m].slot = j /\ call.ev[m].conn = call.adm[j].client
                 /\ call.adm[j].client \notin broken =>
                      \E n \in 1 .. Len(wrote[call.adm[j].client]) :
                        wrote[call.adm[j].client][n] = record
            /\ \A m \in EchoesOf(k, record) : m < ReplyOf(k)

\* a command of one slot was printed to the client of another slot
C26_Witness ==
  /\ Handled
  /\ \E k \in EvIdx :
       /\ call.ev[k].kind = "line"
       /\ call.ev[k].text = "sensors"
       /\ \E j \in LiveAt(k) \ {call.ev[k].slot} :
            \E n \in 1 .. Len(wrote[call.adm[j].client]) :
              wrote[call.adm[j].client][n] = "sensors\r\n"

(***************************************************************************)
(* C27 (as claimed; the code does not satisfy it): while loop() keeps      *)
(* being called and the clock can still advance, every occupied slot whose *)
(* client sends nothing more is eventually freed, whatever is done to the  *)
(* configuration meanwhile.  loop() calls handleTelnet() only while        *)
(* config.enableTelnet is set, and nothing else frees a slot.              *)
(***************************************************************************)
C27_EventuallyFreed ==
  \A i \in Slots :
    (telnetClients[i].connected /\ ticks < LiveTicks)
      ~> ~telnetClients[i].connected

(***************************************************************************)
(* C28: the idle check is right across a wrap of the 32-bit millisecond    *)
(* clock.  For a slot that is served in a call of handleTelnet and has     *)
(* neither been admitted nor sent a line in it, the slot is evicted for    *)
(* idleness exactly if more than 600000 ms have really passed since its    *)
(* last activity (fewer than 2^32), also when millis() has meanwhile       *)
(* wrapped to a value below lastActivity.                                  *)
(***************************************************************************)
WideGt(a, n) == a[1] > n \div Half \/ (a[1] = n \div Half /\ a[2] > n % Half)

\* slot i was occupied and live when the service loop of the call began
Served(i) == call.adm[i].connected /\ call.admLive[call.adm[i].client]

Touched(i) ==
  \E k \in EvIdx : call.ev[k].slot = i /\ call.ev[k].kind \in {"accept", "line"}

IdleEvicted(i) ==
  \E k \in EvIdx : call.ev[k].slot = i /\ call.ev[k].kind = "timeout"

C28_IdleAcrossWrap ==
  Handled =>
    \A i \in Slots :
      (Served(i) /\ ~Touched(i) /\ idleFor[i][1] < Half) =>
        /\ IdleEvicted(i) <=> WideGt(idleFor[i], TimeoutMs)
        /\ IdleEvicted(i) <=> ~telnetClients[i].connected

\* the clock has wrapped below the slot's lastActivity exactly 600000 ms
\* after it, and the slot was kept
C28_Witness ==
  /\ Handled
  /\ \E i \in Slots :
       /\ Served(i)
       /\ ~Touched(i)
       /\ Gt32(telnetClients[i].lastActivity, now)
       /\ idleFor[i] = <<TimeoutMs \div Half, TimeoutMs % Half>>
       /\ telnetClients[i].connected

\* the clock has wrapped below the slot's lastActivity and the slot was
\* evicted for idleness
C28_EvictedAfterWrap ==
  /\ Handled
  /\ \E i \in Slots :
       /\ IdleEvicted(i)
       /\ Gt32(telnetClients[i].lastActivity, now)

(***************************************************************************)
(* C29: across the calls of loop() after begin(), the connectivity         *)
(* callbacks alternate and follow the link state that loop() observes.  In *)
(* every call of loop(): the onDisconnected call site is passed exactly    *)
(* once if the link is found down while isConnected was set, and not       *)
(* otherwise; the onConnected call site is passed exactly once if the link *)
(* is found up while isConnected was clear, and not otherwise; the         *)
(* registered callback is invoked exactly once where its site is passed;   *)
(* the two sites alternate, starting from the onConnected site of begin(); *)
(* after the call isConnected equals the link state it observed;           *)
(* WiFi.reconnect() is invoked at most once, only with the link down, and  *)
(* more than 10000 ms after its previous invocation.  No other operation   *)
(* changes isConnected or passes a site.                                   *)
(***************************************************************************)
Count(c, kind) == Len(KindsIn(c.ev, {kind}))

LoopStep ==
  /\ isConnected' = linkUp
  /\ Count(call', "lost") = (IF isConnected /\ ~linkUp THEN 1 ELSE 0)
  /\ Count(call', "back") = (IF ~isConnected /\ linkUp THEN 1 ELSE 0)
  /\ Count(call', "onDisconnected") =
       (IF isConnected /\ ~linkUp /\ onDisconnectedCallback THEN 1 ELSE 0)
  /\ Count(call', "onConnected") =
       (IF ~isConnected /\ linkUp /\ onConnectedCallback THEN 1 ELSE 0)
  /\ Count(call', "lost") = 1 => lastSite = "onConnected" /\ lastSite' = "onDisconnected"
  /\ Count(call', "back") = 1 => lastSite = "onDisconnected" /\ lastSite' = "onConnected"
  /\ Count(call', "lost") + Count(call', "back") = 0 => lastSite' = lastSite
  /\ Count(call', "reconnect") <= 1
  /\ Count(call', "reconnect") = 1 =>
       /\ ~linkUp
       /\ reconnectedAt = -1 \/ Val(now') - reconnectedAt > ReconnectMs
       /\ Val(now') > ReconnectMs
       /\ reconnectedAt' = Val(now')
  /\ Count(call', "reconnect") = 0 => reconnectedAt' = reconnectedAt

OtherStep ==
  /\ isConnected' = isConnected
  /\ lastSite' = lastSite
  /\ reconnectedAt' = reconnectedAt

C29_CallbacksTrackLink ==
  [][IF call'.op = "loop" THEN LoopStep ELSE OtherStep]_vars

\* the link came back after a reconnect attempt: loop() has just invoked the
\* registered onConnected callback, with an onDisconnected callback registered
C29_Witness ==
  /\ call.op = "loop"
  /\ Count(call, "onConnected") = 1
  /\ reconnectedAt # -1
  /\ isConnected
  /\ onDisconnectedCallback

====
